---- MODULE Spec2Model ----
(***************************************************************************)
(* The monthly financial ledger of the planner application                 *)
(* (money/coder_2.0.py): FinancialPlannerModel with its undo/redo stacks   *)
(* and its JSON backing file, the controller's entry validation and the    *)
(* view's File > New.                                                      *)
(*                                                                         *)
(* Python objects are modelled with their identity.  The heap has three    *)
(* levels, each a sequence indexed by object id:                           *)
(*   lists : list objects, each a sequence of MonthData ids                *)
(*   recs  : MonthData objects, whose portfolio attributes are ids         *)
(*   conts : PortfolioData / SingleValueData objects                       *)
(* months, undo_stack and redo_stack hold list ids.                        *)
(***************************************************************************)
EXTENDS Integers, Sequences, FiniteSets, TLC

VARIABLES lists, recs, conts,      \* the heap
          months,                  \* self.months: id of the live list
          undo_stack, redo_stack,  \* sequences of list ids, top is last
          file,                    \* content of the backing file
          exported,                \* content of the file Export Data writes
          saved,                   \* outcome of the last operation's file write
          input,                   \* what the last operation was given
          now,                     \* the ambient clock
          last,                    \* last operation and the error it showed
          pre,                     \* the ledger, by value, before that operation
          hist,                    \* most recent rebinding/mutation of months
          added,                   \* the records add_month_data has added
          plot,                    \* the plotting threads and what they hold
          ghost,                   \* months as loaded, cleared and last saved
          steps                    \* number of operations performed

vars == <<lists, recs, conts, months, undo_stack, redo_stack, file, exported,
          saved, input, now, last, pre, hist, added, plot, ghost, steps>>

----------------------------------------------------------------------------
(* Bounds *)

MaxSteps == 4

----------------------------------------------------------------------------
(* Portfolio schema and record shapes *)

ChumzFields == {"Emergency Fares", "Quick Savings", "Chumz Monthly Savings",
                "Chumz Expenses", "Chumz Crypto Capital"}
ZiidiFields == {"Ziidi Shopping", "Ziidi Weekly Savings",
                "Ziidi Liquid Expenses"}

DefaultVersion == 1

\* the five portfolio attributes of a MonthData, in declaration order
Slot == <<"chumz", "cash", "crypto", "etica", "ziidi">>

PortfolioData(fields, version) == [fields |-> fields, version |-> version]
SingleValueData(value, version) == [value |-> value, version |-> version]

\* a MonthData by value: what asdict(md) returns
MonthData(month, chumz, cash, crypto, etica, ziidi, timestamp) ==
    [month |-> month, chumz |-> chumz, cash |-> cash, crypto |-> crypto,
     etica |-> etica, ziidi |-> ziidi, timestamp |-> timestamp]

\* datetime.now().isoformat() at clock reading t
IsoFormat(t) ==
    << "2025-03-01T09:00:00", "2025-03-02T09:00:00", "2025-03-03T09:00:00",
       "2025-03-04T09:00:00", "2025-03-05T09:00:00", "2025-03-06T09:00:00",
       "2025-03-07T09:00:00", "2025-03-08T09:00:00", "2025-03-09T09:00:00",
       "2025-03-10T09:00:00" >>[IF t < 9 THEN t + 1 ELSE 10]

\* an error is the sequence of the parts of its message; no error is <<>>
NoError == <<>>

----------------------------------------------------------------------------
(* The heap *)

Heap == [lists |-> lists, recs |-> recs, conts |-> conts]

\* asdict(md) for the MonthData object r of heap h
RecVal(h, r) ==
    [month |-> h.recs[r].month,
     chumz |-> h.conts[h.recs[r].chumz],
     cash |-> h.conts[h.recs[r].cash],
     crypto |-> h.conts[h.recs[r].crypto],
     etica |-> h.conts[h.recs[r].etica],
     ziidi |-> h.conts[h.recs[r].ziidi],
     timestamp |-> h.recs[r].timestamp]

\* [asdict(md) for md in l]
ListVal(h, l) == [i \in 1..Len(h.lists[l]) |-> RecVal(h, h.lists[l][i])]

StackVal(h, st) == [i \in 1..Len(st) |-> ListVal(h, st[i])]

\* allocate fresh MonthData objects, each with five fresh containers, for
\* the values vals; their ids are Len(h.recs) + 1 .. Len(h.recs) + Len(vals)
AllocRecs(h, vals) ==
    LET n == Len(vals)
        cb == Len(h.conts)
        newconts == [j \in 1..(5 * n) |->
                        vals[((j - 1) \div 5) + 1][Slot[((j - 1) % 5) + 1]]]
        newrecs == [i \in 1..n |->
                        [month |-> vals[i].month,
                         chumz |-> cb + 5 * (i - 1) + 1,
                         cash |-> cb + 5 * (i - 1) + 2,
                         crypto |-> cb + 5 * (i - 1) + 3,
                         etica |-> cb + 5 * (i - 1) + 4,
                         ziidi |-> cb + 5 * (i - 1) + 5,
                         timestamp |-> vals[i].timestamp]]
    IN  [lists |-> h.lists,
         recs |-> h.recs \o newrecs,
         conts |-> h.conts \o newconts]

\* a fresh list object holding fresh records for vals; the new list's id is
\* Len(h.lists) + 1
NewList(h, vals) ==
    LET h1 == AllocRecs(h, vals)
    IN  [h1 EXCEPT !.lists =
            Append(@, [i \in 1..Len(vals) |-> Len(h.recs) + i])]

\* deepcopy replaced by a shallow copy: a new list of the same records
deepcopy_shallow(h, l) == [h EXCEPT !.lists = Append(@, h.lists[l])]

\* copy.deepcopy(l): a new list of new records with new containers
deepcopy(h, l) == NewList(h, ListVal(h, l))

SetHeap(h) == lists' = h.lists /\ recs' = h.recs /\ conts' = h.conts

----------------------------------------------------------------------------
(* Persistence codec *)

MissingFile == [kind |-> "missing"]
GarbageFile == [kind |-> "garbage"]
JsonFile(data) == [kind |-> "json", data |-> data]

\* outcomes of writing the backing file: the write succeeds, open() raises
\* (the file is left as it was), or json.dump raises after open() truncated
\* the file (a partial document is left)
SaveOutcomes == {"ok", "open_fails", "write_fails"}

\* dataclasses.asdict on a MonthData: one key per attribute, the containers
\* as nested objects, the Etica scalar under "value"
asdict(md) ==
    [month |-> md.month,
     chumz |-> [fields |-> md.chumz.fields, version |-> md.chumz.version],
     cash |-> [value |-> md.cash.value, version |-> md.cash.version],
     crypto |-> [value |-> md.crypto.value, version |-> md.crypto.version],
     etica |-> [value |-> md.etica.value, version |-> md.etica.version],
     ziidi |-> [fields |-> md.ziidi.fields, version |-> md.ziidi.version],
     timestamp |-> md.timestamp]

\* the document json.dump writes for a list of MonthData
Dump(vals) == JsonFile([i \in 1..Len(vals) |-> asdict(vals[i])])

\* save_data: the exception is caught and logged, never raised
save_data(h, m, outcome) ==
    /\ file' = IF outcome = "ok" THEN Dump(ListVal(h, m))
               ELSE IF outcome = "open_fails" THEN file
               ELSE GarbageFile
    /\ saved' = outcome

\* the operation does not write the backing file
NoWrite == file' = file /\ saved' = "none"

\* dict.get(key, default)
Get(d, key, default) == IF key \in DOMAIN d THEN d[key] ELSE default

\* the MonthData(...) expression of load_data / import_data raises KeyError
\* unless every key it subscripts is present
EntryOK(entry) ==
    /\ {"month", "chumz", "cash", "crypto", "etica", "ziidi"}
          \subseteq DOMAIN entry
    /\ "fields" \in DOMAIN entry.chumz
    /\ "value" \in DOMAIN entry.cash
    /\ "value" \in DOMAIN entry.crypto
    /\ ("value" \in DOMAIN entry.etica \/ "investment" \in DOMAIN entry.etica)
    /\ "fields" \in DOMAIN entry.ziidi

\* the legacy key first
EticaValue_prefers_investment(etica) ==
    IF "investment" \in DOMAIN etica THEN etica.investment ELSE etica.value

\* the Etica scalar: "value" if present, else "investment"
EticaValue(etica) ==
    IF "value" \in DOMAIN etica THEN etica.value ELSE etica.investment

\* decoding that stamps every record with the time of reading
DecodeEntry_fresh_timestamp(entry, t) ==
    MonthData(entry.month,
              PortfolioData(entry.chumz.fields,
                            Get(entry.chumz, "version", DefaultVersion)),
              SingleValueData(entry.cash.value,
                              Get(entry.cash, "version", DefaultVersion)),
              SingleValueData(entry.crypto.value,
                              Get(entry.crypto, "version", DefaultVersion)),
              SingleValueData(EticaValue(entry.etica),
                              Get(entry.etica, "version", DefaultVersion)),
              PortfolioData(entry.ziidi.fields,
                            Get(entry.ziidi, "version", DefaultVersion)),
              IsoFormat(t))

\* the MonthData built from one document entry read at clock t
DecodeEntry(entry, t) ==
    MonthData(entry.month,
              PortfolioData(entry.chumz.fields,
                            Get(entry.chumz, "version", DefaultVersion)),
              SingleValueData(entry.cash.value,
                              Get(entry.cash, "version", DefaultVersion)),
              SingleValueData(entry.crypto.value,
                              Get(entry.crypto, "version", DefaultVersion)),
              SingleValueData(EticaValue(entry.etica),
                              Get(entry.etica, "version", DefaultVersion)),
              PortfolioData(entry.ziidi.fields,
                            Get(entry.ziidi, "version", DefaultVersion)),
              Get(entry, "timestamp", IsoFormat(t)))

\* number of leading entries of data the decoding loop appends before it
\* raises (Len(data) when it does not raise)
RECURSIVE GoodPrefix(_)
GoodPrefix(data) ==
    IF data = <<>> THEN 0
    ELSE IF EntryOK(Head(data)) THEN 1 + GoodPrefix(Tail(data))
    ELSE 0

DecodePrefix(data, t) ==
    [i \in 1..GoodPrefix(data) |-> DecodeEntry(data[i], t)]

----------------------------------------------------------------------------
(* Entry validation (controller) *)

\* field names in the order the form's dicts list them
ChumzOrder == <<"Emergency Fares", "Quick Savings", "Chumz Monthly Savings",
                "Chumz Expenses", "Chumz Crypto Capital">>
ZiidiOrder == <<"Ziidi Shopping", "Ziidi Weekly Savings",
                "Ziidi Liquid Expenses">>

\* the label taken as typed
Strip_none(s) == s

\* str.strip() on the labels the model enters
Strip(s) ==
    IF s = "" \/ s = "  " THEN ""
    ELSE IF s = " April 2025 " THEN "April 2025"
    ELSE s

\* float(raw): raises ValueError unless raw is a numeric literal
IsNumeric(raw) == raw \in {"0", "50", "200", "300", "400", "1000", "-5"}

ParseFloat(raw) ==
    IF raw = "0" THEN 0
    ELSE IF raw = "50" THEN 50
    ELSE IF raw = "200" THEN 200
    ELSE IF raw = "300" THEN 300
    ELSE IF raw = "400" THEN 400
    ELSE IF raw = "1000" THEN 1000
    ELSE -5

\* validate_numeric_field: the value, or the InputValidationError message
validate_numeric_field(value, field_name) ==
    IF IsNumeric(value)
    THEN [ok |-> TRUE, value |-> ParseFloat(value)]
    ELSE [ok |-> FALSE, err |-> <<"Invalid number for", field_name, value>>]

\* the (field name, raw value) pairs in the order add_month_data validates
\* them: Chumz fields, Cash, Crypto, Etica, Ziidi fields
RawFields(data) ==
    LET chumz == Get(data, "Chumz", <<>>)
        ziidi == Get(data, "Ziidi", <<>>)
        cs == SelectSeq(ChumzOrder, LAMBDA k : k \in DOMAIN chumz)
        zs == SelectSeq(ZiidiOrder, LAMBDA k : k \in DOMAIN ziidi)
    IN  [i \in 1..Len(cs) |-> <<cs[i], chumz[cs[i]]>>]
        \o <<  <<"Cash", Get(data, "Cash", "0")>>,
               <<"Crypto", Get(data, "Crypto", "0")>>,
               <<"Etica Investment", Get(data, "Etica", "0")>>  >>
        \o [i \in 1..Len(zs) |-> <<zs[i], ziidi[zs[i]]>>]

\* the first validation failure of add_month_data, or NoError
ValidationError(data) ==
    LET fs == RawFields(data)
        bad == {i \in 1..Len(fs) : ~IsNumeric(fs[i][2])}
    IN  IF Strip(Get(data, "month", "")) = ""
        THEN <<"Month label cannot be empty.">>
        ELSE IF bad = {} THEN NoError
        ELSE LET i == CHOOSE j \in bad : \A k \in bad : j <= k
             IN  validate_numeric_field(fs[i][2], fs[i][1]).err

\* the MonthData add_month_data constructs from validated input at clock t
BuildMonthData(data, t) ==
    LET chumz == Get(data, "Chumz", <<>>)
        ziidi == Get(data, "Ziidi", <<>>)
    IN  MonthData(
            Strip(Get(data, "month", "")),
            PortfolioData([k \in DOMAIN chumz |->
                              validate_numeric_field(chumz[k], k).value],
                          DefaultVersion),
            SingleValueData(
                validate_numeric_field(Get(data, "Cash", "0"), "Cash").value,
                DefaultVersion),
            SingleValueData(
                validate_numeric_field(Get(data, "Crypto", "0"),
                                       "Crypto").value,
                DefaultVersion),
            SingleValueData(
                validate_numeric_field(Get(data, "Etica", "0"),
                                       "Etica Investment").value,
                DefaultVersion),
            PortfolioData([k \in DOMAIN ziidi |->
                              validate_numeric_field(ziidi[k], k).value],
                          DefaultVersion),
            IsoFormat(t))

----------------------------------------------------------------------------
(* Inputs the model draws from *)

\* what the view's add_month_data collects: every schema field present
Form(month, fares, cash, etica, shopping) ==
    [month |-> month,
     Chumz |-> [k \in ChumzFields |->
                   IF k = "Emergency Fares" THEN fares ELSE "0"],
     Cash |-> cash, Crypto |-> "50", Etica |-> etica,
     Ziidi |-> [k \in ZiidiFields |->
                   IF k = "Ziidi Shopping" THEN shopping ELSE "0"]]

Inputs ==
    { Form("March 2025", "1000", "200", "300", "400"),
      Form(" April 2025 ", "0", "-5", "0", "0"),
      Form("  ", "0", "0", "0", "0"),
      Form("May 2025", "0", "abc", "0", "abc") }

ZeroFields(names) == [k \in names |-> 0]

\* a stored entry in the older schema: Etica under "investment", no
\* "version" on Chumz
LegacyEntry ==
    [month |-> "January 2025",
     chumz |-> [fields |-> ZeroFields(ChumzFields)],
     cash |-> [value |-> 200, version |-> 1],
     crypto |-> [value |-> 0, version |-> 1],
     etica |-> [investment |-> 500, version |-> 1],
     ziidi |-> [fields |-> ZeroFields(ZiidiFields), version |-> 1],
     timestamp |-> "2025-01-31T18:00:00"]

\* a current-schema entry without a timestamp
CurrentEntry ==
    [month |-> "February 2025",
     chumz |-> [fields |-> ZeroFields(ChumzFields), version |-> 1],
     cash |-> [value |-> 0, version |-> 1],
     crypto |-> [value |-> 0, version |-> 1],
     etica |-> [value |-> 300, investment |-> 500, version |-> 2],
     ziidi |-> [fields |-> ZeroFields(ZiidiFields), version |-> 1]]

\* an entry whose Etica object has neither key
MalformedEntry ==
    [month |-> "Broken",
     chumz |-> [fields |-> ZeroFields(ChumzFields), version |-> 1],
     cash |-> [value |-> 0, version |-> 1],
     crypto |-> [value |-> 0, version |-> 1],
     etica |-> [version |-> 1],
     ziidi |-> [fields |-> ZeroFields(ZiidiFields), version |-> 1],
     timestamp |-> "2025-01-31T18:00:00"]

\* an entry hand-edited or written by another version: one Chumz field
\* only, and a Ziidi field the schema does not have
PartialEntry ==
    [month |-> "December 2024",
     chumz |-> [fields |-> [k \in {"Emergency Fares"} |-> 100],
                version |-> 1],
     cash |-> [value |-> 0, version |-> 1],
     crypto |-> [value |-> 0, version |-> 1],
     etica |-> [value |-> 0, version |-> 1],
     ziidi |-> [fields |-> [k \in ZiidiFields \cup {"Ziidi Holiday"} |-> 0],
                version |-> 1],
     timestamp |-> "2024-12-31T18:00:00"]

InitFiles == { MissingFile, GarbageFile, JsonFile(<<LegacyEntry>>) }

\* backing files for the specification of loading, export and import
LoadFiles == { MissingFile, GarbageFile,
               JsonFile(<<LegacyEntry, CurrentEntry>>),
               JsonFile(<<LegacyEntry, MalformedEntry>>) }

\* backing files for the specification of restarting
RestartFiles == InitFiles \cup { JsonFile(<<PartialEntry>>) }

ImportDocs == { GarbageFile,
                JsonFile(<<LegacyEntry, CurrentEntry>>),
                JsonFile(<<CurrentEntry, MalformedEntry>>) }

----------------------------------------------------------------------------
(* FinancialPlannerModel *)

\* an operation, the error it ended with and the records it was given
Op(name, err, arg) == [op |-> name, err |-> err, arg |-> arg]

\* months is rebound or mutated by operation name: remember its old value
Mutated(name) == hist' = [op |-> name, pre |-> ListVal(Heap, months)]

\* the ledger by value as an operation finds it, the operation before and
\* the months that one found
Record ==
    pre' = [months |-> ListVal(Heap, months),
            undo_stack |-> StackVal(Heap, undo_stack),
            redo_stack |-> StackVal(Heap, redo_stack),
            file |-> file,
            last |-> last,
            before |-> pre.months]

\* load_data without the reset of months in the except clause: the records
\* decoded before the exception stay
load_data_keeps_prefix(h0, f, t) ==
    IF f.kind = "missing" THEN [h |-> h0, months |-> 1]
    ELSE IF f.kind = "garbage" THEN [h |-> h0, months |-> 1]
    ELSE LET h1 == NewList(h0, DecodePrefix(f.data, t))
         IN  [h |-> h1, months |-> Len(h1.lists)]

\* load_data on backing file f at clock t, starting from the heap h0 of
\* __init__ (list 1 is the initial self.months = []); the result is the heap
\* and the id of the list self.months ends up bound to
load_data(h0, f, t) ==
    IF f.kind = "missing" THEN [h |-> h0, months |-> 1]
    ELSE IF f.kind = "garbage"
    THEN LET h1 == NewList(h0, <<>>)
         IN  [h |-> h1, months |-> Len(h1.lists)]
    ELSE LET h1 == NewList(h0, DecodePrefix(f.data, t))
         IN  IF GoodPrefix(f.data) = Len(f.data)
             THEN [h |-> h1, months |-> Len(h1.lists)]
             ELSE LET h2 == NewList(h1, <<>>)
                  IN  [h |-> h2, months |-> Len(h2.lists)]

\* __init__ on a backing file among files: empty stacks, then load_data
InitFrom(files) ==
    \E f \in files :
        LET r == load_data([lists |-> << <<>> >>, recs |-> <<>>,
                            conts |-> <<>>], f, 0)
        IN  /\ lists = r.h.lists
            /\ recs = r.h.recs
            /\ conts = r.h.conts
            /\ months = r.months
            /\ undo_stack = <<>>
            /\ redo_stack = <<>>
            /\ file = f
            /\ exported = MissingFile
            /\ plot = <<>>
            /\ ghost = [loaded |-> ListVal(r.h, r.months),
                        cleared |-> <<>>, synced |-> <<>>]
            /\ saved = "none"
            /\ input = <<>>
            /\ now = 1
            /\ last = Op("init", NoError, <<>>)
            /\ pre = [months |-> <<>>, undo_stack |-> <<>>,
                      redo_stack |-> <<>>, file |-> f,
                      last |-> Op("init", NoError, <<>>), before |-> <<>>]
            /\ hist = [op |-> "load", pre |-> <<>>]
            /\ added = <<>>
            /\ steps = 0

Init == InitFrom(InitFiles)

\* add_month without redo_stack.clear()
add_month_keeps_redo(h0, rid, outcome) ==
    LET h1 == deepcopy(h0, months)
        h2 == [h1 EXCEPT !.lists[months] = Append(@, rid)]
    IN  /\ undo_stack' = Append(undo_stack, Len(h1.lists))
        /\ redo_stack' = redo_stack
        /\ months' = months
        /\ SetHeap(h2)
        /\ save_data(h2, months, outcome)
        /\ Mutated("add")
        /\ last' = Op("add", NoError, <<RecVal(h0, rid)>>)

\* add_month that keeps one record per month label: a record whose label
\* is already in months replaces the record holding it
add_month_dedup(h0, rid, outcome) ==
    LET h1 == deepcopy(h0, months)
        old == h1.lists[months]
        same == {i \in 1..Len(old) : h1.recs[old[i]].month = h1.recs[rid].month}
        h2 == [h1 EXCEPT !.lists[months] =
                  IF same = {} THEN Append(@, rid)
                  ELSE [i \in 1..Len(@) |-> IF i \in same THEN rid ELSE @[i]]]
    IN  /\ undo_stack' = Append(undo_stack, Len(h1.lists))
        /\ redo_stack' = <<>>
        /\ months' = months
        /\ SetHeap(h2)
        /\ save_data(h2, months, outcome)
        /\ Mutated("add")
        /\ last' = Op("add", NoError, <<RecVal(h0, rid)>>)

\* add_month that takes the record back off months and the snapshot back off
\* undo_stack when the write fails
add_month_rollback(h0, rid, outcome) ==
    LET h1 == deepcopy(h0, months)
        h2 == [h1 EXCEPT !.lists[months] = Append(@, rid)]
    IN  /\ undo_stack' = IF outcome = "ok"
                         THEN Append(undo_stack, Len(h1.lists))
                         ELSE undo_stack
        /\ redo_stack' = <<>>
        /\ months' = months
        /\ SetHeap(IF outcome = "ok" THEN h2 ELSE h1)
        /\ save_data(h2, months, outcome)
        /\ Mutated("add")
        /\ last' = Op("add", NoError, <<RecVal(h0, rid)>>)

\* add_month that saves before it appends the record
add_month_saves_first(h0, rid, outcome) ==
    LET h1 == deepcopy(h0, months)
        h2 == [h1 EXCEPT !.lists[months] = Append(@, rid)]
    IN  /\ undo_stack' = Append(undo_stack, Len(h1.lists))
        /\ redo_stack' = <<>>
        /\ months' = months
        /\ SetHeap(h2)
        /\ save_data(h1, months, outcome)
        /\ Mutated("add")
        /\ last' = Op("add", NoError, <<RecVal(h0, rid)>>)

\* add_month that, when months already has a record with the new record's
\* label, refreshes that record's timestamp in place and appends nothing
add_month_merges(h0, rid, outcome) ==
    LET h1 == deepcopy(h0, months)
        old == h1.lists[months]
        same == {old[i] : i \in {j \in 1..Len(old) :
                    h1.recs[old[j]].month = h1.recs[rid].month}}
        touched == [r \in 1..Len(h1.recs) |->
                       IF r \in same
                       THEN [h1.recs[r] EXCEPT
                                !.timestamp = h1.recs[rid].timestamp]
                       ELSE h1.recs[r]]
        h2 == IF same = {}
              THEN [h1 EXCEPT !.lists[months] = Append(@, rid)]
              ELSE [h1 EXCEPT !.recs = touched]
    IN  /\ undo_stack' = Append(undo_stack, Len(h1.lists))
        /\ redo_stack' = <<>>
        /\ months' = months
        /\ SetHeap(h2)
        /\ save_data(h2, months, outcome)
        /\ Mutated("add")
        /\ last' = Op("add", NoError, <<RecVal(h0, rid)>>)

\* add_month(month_data) where month_data is the object rid of heap h0
add_month(h0, rid, outcome) ==
    LET h1 == deepcopy(h0, months)
        h2 == [h1 EXCEPT !.lists[months] = Append(@, rid)]
    IN  /\ undo_stack' = Append(undo_stack, Len(h1.lists))
        /\ redo_stack' = <<>>
        /\ months' = months
        /\ SetHeap(h2)
        /\ save_data(h2, months, outcome)
        /\ Mutated("add")
        /\ last' = Op("add", NoError, <<RecVal(h0, rid)>>)

\* undo that pushes a copy of the snapshot it restores, not of the months
\* it replaces, onto redo_stack
undo_pushes_restored(outcome) ==
    IF undo_stack # <<>>
    THEN LET h1 == deepcopy(Heap, undo_stack[Len(undo_stack)])
         IN  /\ redo_stack' = Append(redo_stack, Len(h1.lists))
             /\ months' = undo_stack[Len(undo_stack)]
             /\ undo_stack' = SubSeq(undo_stack, 1, Len(undo_stack) - 1)
             /\ SetHeap(h1)
             /\ save_data(h1, months', outcome)
             /\ Mutated("undo")
             /\ last' = Op("undo", NoError, <<>>)
    ELSE /\ last' = Op("undo", <<"Nothing to undo.">>, <<>>)
         /\ UNCHANGED <<lists, recs, conts, months, undo_stack, redo_stack,
                        hist>>
         /\ NoWrite

\* undo that reads the top of undo_stack without popping it
undo_no_pop(outcome) ==
    IF undo_stack # <<>>
    THEN LET h1 == deepcopy(Heap, months)
         IN  /\ redo_stack' = Append(redo_stack, Len(h1.lists))
             /\ months' = undo_stack[Len(undo_stack)]
             /\ undo_stack' = undo_stack
             /\ SetHeap(h1)
             /\ save_data(h1, months', outcome)
             /\ Mutated("undo")
             /\ last' = Op("undo", NoError, <<>>)
    ELSE /\ last' = Op("undo", <<"Nothing to undo.">>, <<>>)
         /\ UNCHANGED <<lists, recs, conts, months, undo_stack, redo_stack,
                        hist>>
         /\ NoWrite

\* undo that saves before it raises on an empty undo_stack
undo_saves_on_empty(outcome) ==
    IF undo_stack # <<>>
    THEN LET h1 == deepcopy(Heap, months)
         IN  /\ redo_stack' = Append(redo_stack, Len(h1.lists))
             /\ months' = undo_stack[Len(undo_stack)]
             /\ undo_stack' = SubSeq(undo_stack, 1, Len(undo_stack) - 1)
             /\ SetHeap(h1)
             /\ save_data(h1, months', outcome)
             /\ Mutated("undo")
             /\ last' = Op("undo", NoError, <<>>)
    ELSE /\ last' = Op("undo", <<"Nothing to undo.">>, <<>>)
         /\ save_data(Heap, months, outcome)
         /\ UNCHANGED <<lists, recs, conts, months, undo_stack, redo_stack,
                        hist>>

undo(outcome) ==
    IF undo_stack # <<>>
    THEN LET h1 == deepcopy(Heap, months)
         IN  /\ redo_stack' = Append(redo_stack, Len(h1.lists))
             /\ months' = undo_stack[Len(undo_stack)]
             /\ undo_stack' = SubSeq(undo_stack, 1, Len(undo_stack) - 1)
             /\ SetHeap(h1)
             /\ save_data(h1, months', outcome)
             /\ Mutated("undo")
             /\ last' = Op("undo", NoError, <<>>)
    ELSE /\ last' = Op("undo", <<"Nothing to undo.">>, <<>>)
         /\ UNCHANGED <<lists, recs, conts, months, undo_stack, redo_stack,
                        hist>>
         /\ NoWrite

\* redo that does not push the months it replaces onto undo_stack
redo_no_undo_push(outcome) ==
    IF redo_stack # <<>>
    THEN /\ undo_stack' = undo_stack
         /\ months' = redo_stack[Len(redo_stack)]
         /\ redo_stack' = SubSeq(redo_stack, 1, Len(redo_stack) - 1)
         /\ UNCHANGED <<lists, recs, conts>>
         /\ save_data(Heap, months', outcome)
         /\ Mutated("redo")
         /\ last' = Op("redo", NoError, <<>>)
    ELSE /\ last' = Op("redo", <<"Nothing to redo.">>, <<>>)
         /\ UNCHANGED <<lists, recs, conts, months, undo_stack, redo_stack,
                        hist>>
         /\ NoWrite

\* redo that returns silently on an empty redo_stack
redo_silent_on_empty(outcome) ==
    IF redo_stack # <<>>
    THEN LET h1 == deepcopy(Heap, months)
         IN  /\ undo_stack' = Append(undo_stack, Len(h1.lists))
             /\ months' = redo_stack[Len(redo_stack)]
             /\ redo_stack' = SubSeq(redo_stack, 1, Len(redo_stack) - 1)
             /\ SetHeap(h1)
             /\ save_data(h1, months', outcome)
             /\ Mutated("redo")
             /\ last' = Op("redo", NoError, <<>>)
    ELSE /\ last' = Op("redo", NoError, <<>>)
         /\ UNCHANGED <<lists, recs, conts, months, undo_stack, redo_stack,
                        hist>>
         /\ NoWrite

\* redo that rebinds months first and then pushes a copy of the restored
\* months onto undo_stack
redo_pushes_restored(outcome) ==
    IF redo_stack # <<>>
    THEN LET h1 == deepcopy(Heap, redo_stack[Len(redo_stack)])
         IN  /\ undo_stack' = Append(undo_stack, Len(h1.lists))
             /\ months' = redo_stack[Len(redo_stack)]
             /\ redo_stack' = SubSeq(redo_stack, 1, Len(redo_stack) - 1)
             /\ SetHeap(h1)
             /\ save_data(h1, months', outcome)
             /\ Mutated("redo")
             /\ last' = Op("redo", NoError, <<>>)
    ELSE /\ last' = Op("redo", <<"Nothing to redo.">>, <<>>)
         /\ UNCHANGED <<lists, recs, conts, months, undo_stack, redo_stack,
                        hist>>
         /\ NoWrite

redo(outcome) ==
    IF redo_stack # <<>>
    THEN LET h1 == deepcopy(Heap, months)
         IN  /\ undo_stack' = Append(undo_stack, Len(h1.lists))
             /\ months' = redo_stack[Len(redo_stack)]
             /\ redo_stack' = SubSeq(redo_stack, 1, Len(redo_stack) - 1)
             /\ SetHeap(h1)
             /\ save_data(h1, months', outcome)
             /\ Mutated("redo")
             /\ last' = Op("redo", NoError, <<>>)
    ELSE /\ last' = Op("redo", <<"Nothing to redo.">>, <<>>)
         /\ UNCHANGED <<lists, recs, conts, months, undo_stack, redo_stack,
                        hist>>
         /\ NoWrite

\* import_data that appends the document's records to the ones it holds
import_data_extends(doc, t) ==
    IF doc.kind # "json"
    THEN /\ last' = Op("import", <<"cannot read document">>, <<>>)
         /\ UNCHANGED <<lists, recs, conts, months, undo_stack, redo_stack,
                        hist>>
         /\ NoWrite
    ELSE LET h1 == NewList(Heap, ListVal(Heap, months)
                                   \o DecodePrefix(doc.data, t))
         IN  /\ months' = Len(h1.lists)
             /\ SetHeap(h1)
             /\ Mutated("import")
             /\ last' = Op("import",
                           IF GoodPrefix(doc.data) = Len(doc.data)
                           THEN NoError ELSE <<"KeyError">>, <<>>)
             /\ UNCHANGED <<undo_stack, redo_stack>>
             /\ NoWrite

\* import_data from a picked file with content doc, read at clock t
import_data(doc, t) ==
    IF doc.kind # "json"
    THEN /\ last' = Op("import", <<"cannot read document">>, <<>>)
         /\ UNCHANGED <<lists, recs, conts, months, undo_stack, redo_stack,
                        hist>>
         /\ NoWrite
    ELSE LET h1 == NewList(Heap, DecodePrefix(doc.data, t))
         IN  /\ months' = Len(h1.lists)
             /\ SetHeap(h1)
             /\ Mutated("import")
             /\ last' = Op("import",
                           IF GoodPrefix(doc.data) = Len(doc.data)
                           THEN NoError ELSE <<"KeyError">>, <<>>)
             /\ UNCHANGED <<undo_stack, redo_stack>>
             /\ NoWrite

\* export_data that handles a failed write as save_data does: logged only
export_data_swallows(outcome) ==
    /\ exported' = IF outcome = "ok" THEN Dump(ListVal(Heap, months))
                   ELSE IF outcome = "open_fails" THEN exported
                   ELSE GarbageFile
    /\ last' = Op("export", NoError, <<>>)
    /\ file' = file
    /\ saved' = outcome
    /\ UNCHANGED <<lists, recs, conts, months, undo_stack, redo_stack, hist>>

\* export_data to a picked file other than the backing file; the exception
\* of a failed write is logged and raised again
export_data(outcome) ==
    /\ exported' = IF outcome = "ok" THEN Dump(ListVal(Heap, months))
                   ELSE IF outcome = "open_fails" THEN exported
                   ELSE GarbageFile
    /\ last' = Op("export",
                  IF outcome = "ok" THEN NoError ELSE <<"OSError">>, <<>>)
    /\ file' = file
    /\ saved' = outcome
    /\ UNCHANGED <<lists, recs, conts, months, undo_stack, redo_stack, hist>>

----------------------------------------------------------------------------
(* Controller and view operations *)

\* add_month_data without the check of the month label
AddMonthData_label_unchecked ==
    \E data \in Inputs, outcome \in SaveOutcomes :
        IF ValidationError([data EXCEPT !.month = "x"]) = NoError
        THEN LET h0 == AllocRecs(Heap, <<BuildMonthData(data, now)>>)
             IN  /\ add_month(h0, Len(h0.recs), outcome)
                 /\ now' = now + 1
                 /\ added' = Append(added, BuildMonthData(data, now))
                 /\ input' = <<data>>
                 /\ UNCHANGED <<exported, plot>>
        ELSE /\ last' = Op("add", ValidationError(data), <<>>)
             /\ input' = <<data>>
             /\ UNCHANGED <<exported, plot>>
             /\ UNCHANGED <<lists, recs, conts, months, undo_stack,
                            redo_stack, hist, now, added>>
             /\ NoWrite

\* FinancialPlannerController.add_month_data
AddMonthData ==
    \E data \in Inputs, outcome \in SaveOutcomes :
        IF ValidationError(data) = NoError
        THEN LET h0 == AllocRecs(Heap, <<BuildMonthData(data, now)>>)
             IN  /\ add_month(h0, Len(h0.recs), outcome)
                 /\ now' = now + 1
                 /\ added' = Append(added, BuildMonthData(data, now))
                 /\ input' = <<data>>
                 /\ UNCHANGED <<exported, plot>>
        ELSE /\ last' = Op("add", ValidationError(data), <<>>)
             /\ input' = <<data>>
             /\ UNCHANGED <<exported, plot>>
             /\ UNCHANGED <<lists, recs, conts, months, undo_stack,
                            redo_stack, hist, now, added>>
             /\ NoWrite

Undo ==
    /\ \E outcome \in SaveOutcomes : undo(outcome)
    /\ input' = <<>>
    /\ UNCHANGED <<now, added, exported, plot>>

Redo ==
    /\ \E outcome \in SaveOutcomes : redo(outcome)
    /\ input' = <<>>
    /\ UNCHANGED <<now, added, exported, plot>>

\* FinancialPlannerController.import_data, the picked file among docs
ImportFrom(docs) ==
    \E doc \in docs :
        /\ import_data(doc, now)
        /\ now' = IF doc.kind = "json" THEN now + 1 ELSE now
        /\ input' = <<doc>>
        /\ UNCHANGED <<added, exported, plot>>

ImportData == ImportFrom(ImportDocs)

\* Import Data on the file Export Data wrote or on an older document
ImportPicked ==
    ImportFrom({exported, JsonFile(<<LegacyEntry, CurrentEntry>>)})

\* FinancialPlannerController.export_data
ExportData ==
    /\ \E outcome \in SaveOutcomes : export_data(outcome)
    /\ input' = <<>>
    /\ UNCHANGED <<now, added, plot>>

\* clear_all that also empties redo_stack
clear_all_clears_redo ==
    LET h1 == NewList(Heap, <<>>)
    IN  /\ months' = Len(h1.lists)
        /\ SetHeap(h1)
        /\ Mutated("clear")
        /\ last' = Op("clear", NoError, <<>>)
        /\ redo_stack' = <<>>
        /\ input' = <<>>
        /\ UNCHANGED <<undo_stack, now, added, exported, plot>>
        /\ NoWrite

\* clear_all that goes through the undo machinery: the months it replaces
\* are pushed onto undo_stack
clear_all_pushes_undo ==
    LET h0 == deepcopy(Heap, months)
        h1 == NewList(h0, <<>>)
    IN  /\ undo_stack' = Append(undo_stack, Len(h0.lists))
        /\ months' = Len(h1.lists)
        /\ SetHeap(h1)
        /\ Mutated("clear")
        /\ last' = Op("clear", NoError, <<>>)
        /\ input' = <<>>
        /\ UNCHANGED <<redo_stack, now, added, exported, plot>>
        /\ NoWrite

\* FinancialPlannerView.clear_all, the dialog answered yes
clear_all ==
    LET h1 == NewList(Heap, <<>>)
    IN  /\ months' = Len(h1.lists)
        /\ SetHeap(h1)
        /\ Mutated("clear")
        /\ last' = Op("clear", NoError, <<>>)
        /\ input' = <<>>
        /\ UNCHANGED <<undo_stack, redo_stack, now, added, exported, plot>>
        /\ NoWrite

\* plot_monthly_breakdown: the last element of months goes to a new thread
plot_monthly_breakdown ==
    /\ IF lists[months] = <<>>
       THEN /\ last' = Op("plot", <<"No data to plot.">>, <<>>)
            /\ plot' = plot
       ELSE LET month_data == lists[months][Len(lists[months])]
            IN  /\ last' = Op("plot", NoError, <<>>)
                /\ plot' = Append(plot, [held |-> month_data,
                                         given |-> RecVal(Heap, month_data),
                                         read |-> <<>>])
    /\ input' = <<>>
    /\ UNCHANGED <<lists, recs, conts, months, undo_stack, redo_stack, hist,
                   now, added, exported>>
    /\ NoWrite

\* _plot_monthly_breakdown_thread: a started thread reads the portfolios of
\* the record it holds
plot_monthly_breakdown_thread ==
    \E i \in 1..Len(plot) :
        /\ plot[i].read = <<>>
        /\ plot' = [plot EXCEPT ![i].read = <<RecVal(Heap, plot[i].held)>>]
        /\ last' = Op("plot_thread", NoError, <<>>)
        /\ input' = <<>>
        /\ UNCHANGED <<lists, recs, conts, months, undo_stack, redo_stack,
                       hist, now, added, exported>>
        /\ NoWrite

\* the process ends and main() constructs a new model on the backing file
\* at clock now: no object of the old process remains
Restart ==
    LET r == load_data([lists |-> << <<>> >>, recs |-> <<>>,
                        conts |-> <<>>], file, now)
    IN  /\ SetHeap(r.h)
        /\ months' = r.months
        /\ undo_stack' = <<>>
        /\ redo_stack' = <<>>
        /\ plot' = <<>>
        /\ added' = <<>>
        /\ input' = <<>>
        /\ now' = now + 1
        /\ hist' = [op |-> "load", pre |-> <<>>]
        /\ last' = Op("restart", NoError, <<>>)
        /\ UNCHANGED exported
        /\ NoWrite

\* what the operation just performed leaves for later comparison: the
\* months a clear replaced (kept while only undo and redo follow) and the
\* months of the last successful save of add, undo or redo
Track ==
    ghost' = [loaded |-> IF last'.op = "restart"
                         THEN ListVal(Heap, months)' ELSE ghost.loaded,
              cleared |-> IF last'.op = "clear"
                          THEN <<ListVal(Heap, months)>>
                          ELSE IF last'.op \in {"undo", "redo"}
                          THEN ghost.cleared ELSE <<>>,
              synced |-> IF saved' = "ok"
                            /\ last'.op \in {"add", "undo", "redo"}
                         THEN <<ListVal(Heap, months)'>> ELSE ghost.synced]

Step(A) ==
    steps < MaxSteps /\ steps' = steps + 1 /\ Record /\ A /\ Track

Next ==
    \/ Step(AddMonthData)
    \/ Step(Undo)
    \/ Step(Redo)
    \/ Step(ImportData)
    \/ Step(clear_all)

Spec == Init /\ [][Next]_vars

\* a ledger that starts empty and is only ever added to
InitEmpty == Init /\ ListVal(Heap, months) = <<>>

NextAdd == Step(AddMonthData)

SpecAdd == InitEmpty /\ [][NextAdd]_vars

\* loading, adding, undoing, exporting and importing what was exported
InitIO == InitFrom(LoadFiles)

NextIO ==
    \/ Step(AddMonthData)
    \/ Step(Undo)
    \/ Step(ExportData)
    \/ Step(ImportPicked)

SpecIO == InitIO /\ [][NextIO]_vars

\* adding, undoing and redoing; File > New at most once, and after it only
\* undoing and redoing
NextClear ==
    \/ ghost.cleared = <<>> /\ Step(AddMonthData)
    \/ Step(Undo)
    \/ Step(Redo)
    \/ ghost.cleared = <<>> /\ Step(clear_all)

SpecClear == Init /\ [][NextClear]_vars

\* the ledger operations with plotting threads running beside them
NextPlot ==
    \/ Step(AddMonthData)
    \/ Step(Undo)
    \/ Step(Redo)
    \/ Step(clear_all)
    \/ Step(ExportData)
    \/ Step(plot_monthly_breakdown)
    \/ Step(plot_monthly_breakdown_thread)

SpecPlot == Init /\ [][NextPlot]_vars

\* the ledger operations with the process ending and starting again
NextRestart ==
    \/ Step(AddMonthData)
    \/ Step(Undo)
    \/ Step(ImportData)
    \/ Step(clear_all)
    \/ Step(Restart)

InitRestart == InitFrom(RestartFiles)

SpecRestart == InitRestart /\ [][NextRestart]_vars

----------------------------------------------------------------------------
(* The ledger by value, and object reachability *)

M == ListVal(Heap, months)
U == StackVal(Heap, undo_stack)
R == StackVal(Heap, redo_stack)

Top(st) == st[Len(st)]
Pop(st) == SubSeq(st, 1, Len(st) - 1)

\* the last operation was name and it ended without an error
Done(name) == last.op = name /\ last.err = NoError

\* the list objects the ledger holds: the live one first, then the stacks
Held == <<months>> \o undo_stack \o redo_stack

\* the MonthData objects in list object l
RecsOf(l) == {lists[l][k] : k \in 1..Len(lists[l])}

\* the MonthData objects in the held lists
HeldRecs == UNION {RecsOf(Held[i]) : i \in 1..Len(Held)}

ContsOf(r) == {recs[r][Slot[k]] : k \in 1..Len(Slot)}

----------------------------------------------------------------------------
(* Claims *)

\* C1: add(record) leaves undo_stack equal to the old undo_stack with a copy
\* of the old months pushed on top, leaves redo_stack empty, and leaves
\* months equal to the old months with record appended last.
C1_AddEffect ==
    Done("add") =>
        /\ U = Append(pre.undo_stack, pre.months)
        /\ R = <<>>
        /\ M = pre.months \o last.arg

\* an add onto a non-empty ledger whose redo_stack was non-empty
C1_Witness ==
    /\ Done("add")
    /\ Len(last.arg) = 1
    /\ pre.months # <<>>
    /\ pre.redo_stack # <<>>

\* C2: undo() immediately followed by redo() restores months to a value
\* deep-equal to months before the undo.
C2_UndoRedoRestores ==
    (Done("redo") /\ pre.last.op = "undo" /\ pre.last.err = NoError) =>
        M = pre.before

\* a redo right after an undo of a non-empty months
C2_Witness ==
    /\ Done("redo")
    /\ pre.last.op = "undo"
    /\ pre.last.err = NoError
    /\ pre.before # <<>>
    /\ pre.months # pre.before

\* C3: with undo_stack non-empty, undo() sets months to the snapshot that
\* was on top of undo_stack, removes it from undo_stack and pushes a copy of
\* the pre-undo months on redo_stack; the other snapshots are unchanged.
C3_UndoEffect ==
    (last.op = "undo" /\ pre.undo_stack # <<>>) =>
        /\ last.err = NoError
        /\ M = Top(pre.undo_stack)
        /\ U = Pop(pre.undo_stack)
        /\ R = Append(pre.redo_stack, pre.months)

\* an undo of a non-empty months that found a snapshot on redo_stack
C3_Witness ==
    /\ Done("undo")
    /\ pre.redo_stack # <<>>
    /\ pre.months # <<>>
    /\ M # pre.months

\* C4: with redo_stack non-empty, redo() sets months to the snapshot that
\* was on top of redo_stack, removes it from redo_stack and pushes a copy of
\* the pre-redo months on undo_stack; the other snapshots are unchanged.
C4_RedoEffect ==
    (last.op = "redo" /\ pre.redo_stack # <<>>) =>
        /\ last.err = NoError
        /\ M = Top(pre.redo_stack)
        /\ R = Pop(pre.redo_stack)
        /\ U = Append(pre.undo_stack, pre.months)

\* a redo onto a non-empty undo_stack
C4_Witness ==
    /\ Done("redo")
    /\ pre.undo_stack # <<>>
    /\ pre.months # <<>>
    /\ M # pre.months

\* C5: undo() on an empty undo_stack fails with "Nothing to undo." and
\* leaves months, undo_stack, redo_stack and the backing file unchanged.
C5_UndoEmpty ==
    (last.op = "undo" /\ pre.undo_stack = <<>>) =>
        /\ last.err = <<"Nothing to undo.">>
        /\ M = pre.months
        /\ U = pre.undo_stack
        /\ R = pre.redo_stack
        /\ file = pre.file

\* a failed undo while the backing file differs from months, so that a save
\* would have shown
C5_Witness ==
    /\ last.op = "undo"
    /\ last.err = <<"Nothing to undo.">>
    /\ M # <<>>
    /\ file # JsonFile(M)

\* C6: redo() on an empty redo_stack fails with "Nothing to redo." and
\* leaves months, undo_stack, redo_stack and the backing file unchanged.
C6_RedoEmpty ==
    (last.op = "redo" /\ pre.redo_stack = <<>>) =>
        /\ last.err = <<"Nothing to redo.">>
        /\ M = pre.months
        /\ U = pre.undo_stack
        /\ R = pre.redo_stack
        /\ file = pre.file

\* a failed redo with a snapshot on undo_stack while the backing file
\* differs from months
C6_Witness ==
    /\ last.op = "redo"
    /\ last.err = <<"Nothing to redo.">>
    /\ U # <<>>
    /\ file # JsonFile(M)

\* C7: from an empty ledger, after any sequence of successful and failing
\* adds, months is the sequence of the successfully added records in the
\* order they were added, records with equal labels included.
C7_AddsInOrder == M = added

\* two records with the same label are both listed, and the last add failed
C7_Witness ==
    /\ Len(M) >= 2
    /\ M[1].month = M[2].month
    /\ last.op = "add"
    /\ last.err # NoError

\* C8 as stated: after add, after clear and after import, redo_stack is
\* empty.
C8_RedoClearedByAllMutations ==
    (Done("add") \/ Done("clear") \/ Done("import")) => R = <<>>

\* C8 amended: after add, redo_stack is empty; clear and import leave
\* redo_stack as it was.
C8_RedoClearedByAdd ==
    /\ Done("add") => R = <<>>
    /\ last.op \in {"clear", "import"} => R = pre.redo_stack

\* a clear that found, and left, a snapshot on redo_stack
C8_Witness ==
    /\ Done("clear")
    /\ pre.redo_stack # <<>>
    /\ pre.months # <<>>

\* C9 as stated: if undo_stack is non-empty, its top equals the value months
\* had immediately before the most recent mutation of months.
C9_TopIsPreMutation ==
    U # <<>> => Top(U) = hist.pre

\* C9 amended: if undo_stack is non-empty and the most recent mutation of
\* months was an add or a redo, its top equals the value months had
\* immediately before that mutation.
C9_TopIsPreAddOrRedo ==
    (U # <<>> /\ hist.op \in {"add", "redo"}) => Top(U) = hist.pre

\* the most recent mutation was a redo that replaced a non-empty months
C9_Witness ==
    /\ hist.op = "redo"
    /\ U # <<>>
    /\ hist.pre # <<>>
    /\ M # hist.pre

\* C10: no snapshot shares a list, a record or a container with the live
\* months or with another snapshot, and the content of a stored snapshot
\* never changes while it stays on its stack.
C10_SnapshotsIndependent ==
    /\ \A i, j \in 1..Len(Held) : i # j => Held[i] # Held[j]
    /\ \A i \in 1..Len(Held) :
          Cardinality(RecsOf(Held[i])) = Len(lists[Held[i]])
    /\ \A i, j \in 1..Len(Held) :
          i # j => RecsOf(Held[i]) \cap RecsOf(Held[j]) = {}
    /\ \A r \in HeldRecs : Cardinality(ContsOf(r)) = Len(Slot)
    /\ \A r, q \in HeldRecs : r # q => ContsOf(r) \cap ContsOf(q) = {}
    /\ LET ku == IF Len(U) < Len(pre.undo_stack)
                 THEN Len(U) ELSE Len(pre.undo_stack)
           kr == IF Len(R) < Len(pre.redo_stack)
                 THEN Len(R) ELSE Len(pre.redo_stack)
       IN  /\ SubSeq(U, 1, ku) = SubSeq(pre.undo_stack, 1, ku)
           /\ SubSeq(R, 1, kr) = SubSeq(pre.redo_stack, 1, kr)

\* an add changed the live list in place while a non-empty snapshot taken
\* of it earlier was still on undo_stack
C10_Witness ==
    /\ Done("add")
    /\ pre.undo_stack # <<>>
    /\ Top(pre.undo_stack) # <<>>
    /\ pre.last.op = "add"
    /\ pre.last.err = NoError

----------------------------------------------------------------------------
\* the last operation tried to write the backing file and the write raised
WriteFailed == saved \in {"open_fails", "write_fails"}

\* C11: when the write of the backing file fails during add, undo or redo,
\* the operation ends without an error and months, undo_stack and redo_stack
\* are the ones the operation yields when the write succeeds: the record is
\* appended, the snapshot is moved, nothing is rolled back.
C11_WriteFailureKeepsMutation ==
    (WriteFailed /\ last.op \in {"add", "undo", "redo"}) =>
        /\ last.err = NoError
        /\ last.op = "add" =>
              /\ M = pre.months \o last.arg
              /\ U = Append(pre.undo_stack, pre.months)
              /\ R = <<>>
        /\ last.op = "undo" =>
              /\ pre.undo_stack # <<>>
              /\ M = Top(pre.undo_stack)
              /\ U = Pop(pre.undo_stack)
              /\ R = Append(pre.redo_stack, pre.months)
        /\ last.op = "redo" =>
              /\ pre.redo_stack # <<>>
              /\ M = Top(pre.redo_stack)
              /\ R = Pop(pre.redo_stack)
              /\ U = Append(pre.undo_stack, pre.months)

\* an add whose write failed after truncating the file, on a ledger that
\* held a record
C11_Witness ==
    /\ last.op = "add"
    /\ saved = "write_fails"
    /\ pre.months # <<>>
    /\ Len(M) = Len(pre.months) + 1
    /\ file = GarbageFile

----------------------------------------------------------------------------
\* the add, undo or redo just performed wrote the backing file
Saved == saved = "ok" /\ Done(last.op) /\ last.op \in {"add", "undo", "redo"}

\* backing file f does not hold the months sequence m: it is absent while m
\* has records, it does not parse, or it decodes to other records
Differs(f, m) ==
    IF f.kind = "missing" THEN m # <<>>
    ELSE IF f.kind = "garbage" THEN TRUE
    ELSE \/ GoodPrefix(f.data) # Len(f.data)
         \/ DecodePrefix(f.data, 0) # m

\* the last operation changed months without a successful write: the write
\* raised, or the operation (clear, import) does not save
FailedOrSkippedSave == WriteFailed \/ last.op \in {"clear", "import"}

\* C12 as stated: after every add, undo or redo whose write succeeds the
\* backing file holds exactly the current months, and file and memory differ
\* only between a failed or skipped save and the next successful one, so
\* they never differ before the first operation
C12_DiffersOnlyAfterMissedSave ==
    /\ Saved => file = Dump(M)
    /\ Differs(file, M) =>
          /\ steps > 0
          /\ Differs(pre.file, pre.months) \/ FailedOrSkippedSave

\* C12: after every add, undo or redo whose write succeeds the backing file
\* holds exactly the current months, all records in order, whatever failed
\* writes, clears or imports came before; an operation makes file and memory
\* differ only by a failed or skipped save. They also differ from
\* construction on, when the backing file did not load.
C12_FileIsMonthsAfterSave ==
    /\ Saved => file = Dump(M) /\ ~Differs(file, M)
    /\ (steps > 0 /\ Differs(file, M) /\ ~Differs(pre.file, pre.months))
          => FailedOrSkippedSave
    /\ (steps = 0 /\ Differs(file, M)) =>
          \/ file.kind = "garbage"
          \/ file.kind = "json" /\ GoodPrefix(file.data) # Len(file.data)

\* a successful write that ends a divergence left by a clear
C12_Witness ==
    /\ Saved
    /\ last.op = "add"
    /\ pre.last.op = "clear"
    /\ Differs(pre.file, pre.months)
    /\ Len(M) = 1
    /\ file = Dump(M)

----------------------------------------------------------------------------
\* the month label of the form is empty or only whitespace
BlankLabel(data) == data.month \in {"", " ", "  "}

\* one of the Chumz, Cash, Crypto, Etica and Ziidi inputs is not a number
NonNumeric(data) ==
    \E i \in 1..Len(RawFields(data)) : RawFields(data)[i][2] \in {"abc", ""}

\* C13: an add whose month label is empty or whitespace, or one of whose
\* Chumz, Cash, Crypto, Etica and Ziidi inputs is not numeric, ends with an
\* error before any change: months, undo_stack, redo_stack and the backing
\* file are as before and nothing is written or appended.
C13_ValidationFailureChangesNothing ==
    (last.op = "add" /\ input # <<>>
        /\ (BlankLabel(input[1]) \/ NonNumeric(input[1]))) =>
        /\ last.err # NoError
        /\ M = pre.months
        /\ U = pre.undo_stack
        /\ R = pre.redo_stack
        /\ file = pre.file
        /\ saved = "none"

\* a form whose Chumz fields are numeric and whose Cash is not, entered on
\* a ledger with records and snapshots
C13_Witness ==
    /\ last.op = "add"
    /\ input # <<>>
    /\ input[1].Chumz["Emergency Fares"] = "0"
    /\ input[1].Cash = "abc"
    /\ last.err = <<"Invalid number for", "Cash", "abc">>
    /\ pre.months # <<>>
    /\ pre.undo_stack # <<>>
    /\ M = pre.months

----------------------------------------------------------------------------
\* every input of the form is one of the numeric literals
AllNumeric(data) ==
    \A i \in 1..Len(RawFields(data)) :
        RawFields(data)[i][2] \in {"0", "50", "200", "300", "400", "1000", "-5"}

\* C14: building the record from a form rejects an empty or whitespace
\* month label and rejects a raw field that is not a number ("abc"); with
\* a label and numbers only, "0" among them, it yields the record whose
\* label is the trimmed input label and whose "0" fields are 0.
C14_BuildRecord ==
    (last.op = "add" /\ input # <<>>) =>
        LET data == input[1]
        IN  /\ BlankLabel(data) =>
                  last.err = <<"Month label cannot be empty.">>
            /\ (~BlankLabel(data) /\ NonNumeric(data)) =>
                  /\ last.err # NoError
                  /\ last.err[1] = "Invalid number for"
                  /\ last.err[3] = "abc"
            /\ (~BlankLabel(data) /\ AllNumeric(data)) =>
                  /\ last.err = NoError
                  /\ last.arg[1].month \in
                        {"March 2025", "April 2025", "May 2025"}
                  /\ data.month = " April 2025 " =>
                        last.arg[1].month = "April 2025"
                  /\ data.month = "March 2025" =>
                        last.arg[1].month = "March 2025"
                  /\ data.Etica = "0" => last.arg[1].etica.value = 0
                  /\ \A k \in ChumzFields :
                        data.Chumz[k] = "0" =>
                            last.arg[1].chumz.fields[k] = 0

\* the form labelled " April 2025 " with "0" for Etica was accepted
C14_Witness ==
    /\ Done("add")
    /\ input # <<>>
    /\ input[1].month = " April 2025 "
    /\ input[1].Etica = "0"
    /\ last.arg[1].month = "April 2025"
    /\ last.arg[1].etica.value = 0
    /\ last.arg[1].cash.value = -5

----------------------------------------------------------------------------
\* C15: clear makes months the empty sequence and pushes nothing onto
\* undo_stack: undo_stack, redo_stack and the backing file are after the
\* clear what they were before it.
C15_ClearEffect ==
    last.op = "clear" =>
        /\ last.err = NoError
        /\ M = <<>>
        /\ U = pre.undo_stack
        /\ R = pre.redo_stack
        /\ file = pre.file
        /\ saved = "none"

\* a clear of a ledger that held records, snapshots on both stacks and a
\* backing file with those records
C15_Witness ==
    /\ last.op = "clear"
    /\ pre.months # <<>>
    /\ pre.undo_stack # <<>>
    /\ pre.redo_stack # <<>>
    /\ pre.file = Dump(pre.months)
    /\ M = <<>>

----------------------------------------------------------------------------
\* the Etica scalar a document entry carries
EntryEtica(entry) ==
    IF "value" \in DOMAIN entry.etica THEN entry.etica.value
    ELSE entry.etica.investment

\* record md holds what document entry e says
Holds(md, e) ==
    /\ md.month = e.month
    /\ md.chumz.fields = e.chumz.fields
    /\ md.cash.value = e.cash.value
    /\ md.crypto.value = e.crypto.value
    /\ md.etica.value = EntryEtica(e)
    /\ md.ziidi.fields = e.ziidi.fields
    /\ "timestamp" \in DOMAIN e => md.timestamp = e.timestamp

\* C16: a successful import makes months exactly the records of the
\* imported document, in document order, none of the previous records kept,
\* and leaves undo_stack, redo_stack and the backing file as they were.
C16_ImportReplaces ==
    (Done("import") /\ input # <<>>) =>
        /\ input[1].kind = "json"
        /\ Len(M) = Len(input[1].data)
        /\ \A i \in 1..Len(M) : Holds(M[i], input[1].data[i])
        /\ U = pre.undo_stack
        /\ R = pre.redo_stack
        /\ file = pre.file
        /\ saved = "none"

\* an import of the two-record document into a ledger that held another
\* record and a snapshot
C16_Witness ==
    /\ Done("import")
    /\ pre.months # <<>>
    /\ pre.undo_stack # <<>>
    /\ \A i \in 1..Len(pre.months) : pre.months[i].month = "March 2025"
    /\ Len(M) = 2
    /\ M[1].month = "January 2025"
    /\ M[2].month = "February 2025"

----------------------------------------------------------------------------
\* C17: an export to a file other than the backing file leaves months,
\* undo_stack, redo_stack and the backing file as they were, whether it
\* succeeds or fails; a failed export ends with an error for the caller, a
\* successful one with the document of months in the file.
C17_ExportEffect ==
    last.op = "export" =>
        /\ M = pre.months
        /\ U = pre.undo_stack
        /\ R = pre.redo_stack
        /\ file = pre.file
        /\ WriteFailed => last.err # NoError
        /\ saved = "ok" => last.err = NoError /\ exported = Dump(M)

\* a failed export from a ledger with records and snapshots on both stacks
C17_Witness ==
    /\ last.op = "export"
    /\ saved = "write_fails"
    /\ last.err # NoError
    /\ M # <<>>
    /\ U # <<>>
    /\ R # <<>>
    /\ file.kind = "json"

----------------------------------------------------------------------------
\* the import just performed read the file the export before it wrote
RoundTrip ==
    /\ Done("import")
    /\ input = <<exported>>
    /\ pre.last.op = "export"
    /\ pre.last.err = NoError

\* C18: exporting months to a file and importing that file yields months
\* deep-equal to the exported ones: the same records in the same order with
\* the same labels, field values, versions and timestamps, also when a
\* record's Etica entry was read from the legacy "investment" key.
C18_RoundTrip == RoundTrip => M = pre.months

\* a round trip of the record loaded from the legacy entry, the record
\* loaded without a timestamp and a record added since
C18_Witness ==
    /\ RoundTrip
    /\ Len(M) = 3
    /\ M[1].month = "January 2025"
    /\ M[1].etica.value = 500
    /\ M[2].etica.version = 2
    /\ M[3].month = "April 2025"
    /\ M[3].cash.value = -5

----------------------------------------------------------------------------
\* months was read from the entries of document d
ReadFrom(d) ==
    /\ Len(M) = Len(d.data)
    /\ \A i \in 1..Len(M) :
          LET etica == d.data[i].etica
          IN  /\ M[i].etica.value = EntryEtica(d.data[i])
              /\ "value" \in DOMAIN etica => M[i].etica.value = etica.value
              /\ etica = [investment |-> 500, version |-> 1] =>
                    M[i].etica.value = 500

\* document d carries the Etica scalars of months under "value" only
WrittenFrom(d) ==
    /\ d.kind = "json"
    /\ Len(d.data) = Len(M)
    /\ \A i \in 1..Len(M) :
          /\ DOMAIN d.data[i].etica = {"value", "version"}
          /\ d.data[i].etica.value = M[i].etica.value

\* C19: load and import take an entry's Etica scalar from "value" when the
\* key is present, also next to "investment", and from "investment"
\* otherwise, so {"investment": 500} gives 500; the documents save and
\* export write carry the scalar under "value" and never under "investment".
C19_EticaKey ==
    /\ (steps = 0 /\ M # <<>>) => ReadFrom(file)
    /\ Done("import") => ReadFrom(input[1])
    /\ (saved = "ok" /\ last.op \in {"add", "undo"}) => WrittenFrom(file)
    /\ Done("export") => WrittenFrom(exported)

\* an export of records an import read from a legacy entry and from an
\* entry with both keys
C19_Witness ==
    /\ Done("export")
    /\ hist.op = "import"
    /\ pre.last.op = "import"
    /\ Len(M) = 2
    /\ M[1].etica.value = 500
    /\ M[2].etica.value = 300
    /\ exported.data[1].etica = [value |-> 500, version |-> 1]
    /\ exported.data[2].etica = [value |-> 300, version |-> 2]

----------------------------------------------------------------------------
\* document entry e has an Etica object with neither key
NoEticaScalar(e) == {"value", "investment"} \cap DOMAIN e.etica = {}

\* C20: construction ends without an error whatever the backing file; a
\* missing file, an unparseable file and a parseable file with a malformed
\* record each give empty months, the well-formed records before the
\* malformed one included.
C20_LoadNeverFails ==
    last.op = "init" =>
        /\ last.err = NoError
        /\ U = <<>> /\ R = <<>>
        /\ file.kind \in {"missing", "garbage"} => M = <<>>
        /\ (file.kind = "json"
              /\ \E i \in 1..Len(file.data) : NoEticaScalar(file.data[i]))
                => M = <<>>

\* the ledger constructed on a file whose second entry is malformed
C20_Witness ==
    /\ last.op = "init"
    /\ file.kind = "json"
    /\ Len(file.data) = 2
    /\ ~NoEticaScalar(file.data[1])
    /\ NoEticaScalar(file.data[2])
    /\ M = <<>>

----------------------------------------------------------------------------
\* an undo right after a successful add restores the months the add found
UndoAfterAdd ==
    (Done("add") /\ last.arg # <<>> /\ last'.op = "undo") =>
        /\ last'.err = NoError
        /\ M' = pre.months

\* a redo right after that undo restores the months the add left, the added
\* record last and as it was added
RedoAfterUndoAfterAdd ==
    (Done("undo") /\ pre.last.op = "add" /\ pre.last.err = NoError
        /\ last'.op = "redo") =>
        /\ last'.err = NoError
        /\ M' = pre.months
        /\ M'[Len(M')] = pre.last.arg[1]

\* C21: add(r) immediately followed by undo restores months to the exact
\* sequence it held before the add, and a following redo restores months to
\* the sequence after the add, r last, with r's label, values and timestamp
\* unchanged.
C21_AddUndoRedo == [][UndoAfterAdd /\ RedoAfterUndoAfterAdd]_vars

\* March added, April added, undo, redo, from an empty ledger: both records
\* are back and the undo had left March only
C21_Witness ==
    /\ Done("redo")
    /\ pre.last.op = "undo"
    /\ steps = 4
    /\ ghost.loaded = <<>>
    /\ Len(M) = 2
    /\ M[1].month = "March 2025"
    /\ M[2].month = "April 2025"
    /\ M[2].cash.value = -5
    /\ pre.months = <<M[1]>>

----------------------------------------------------------------------------
\* C22: in every reachable state every Chumz and Ziidi field value and every
\* Cash, Crypto and Etica scalar of every record in months is at least 0,
\* for records entered through add and for records loaded or imported.
C22_NonNegative ==
    \A i \in 1..Len(M) :
        /\ M[i].cash.value >= 0
        /\ M[i].crypto.value >= 0
        /\ M[i].etica.value >= 0
        /\ \A k \in DOMAIN M[i].chumz.fields : M[i].chumz.fields[k] >= 0
        /\ \A k \in DOMAIN M[i].ziidi.fields : M[i].ziidi.fields[k] >= 0

----------------------------------------------------------------------------
\* C23: in every reachable state every record in months has exactly the
\* five Chumz field names and the three Ziidi field names of the schema:
\* neither add nor load nor import puts a record with another field set
\* into months.
C23_SchemaComplete ==
    \A i \in 1..Len(M) :
        /\ DOMAIN M[i].chumz.fields = ChumzFields
        /\ DOMAIN M[i].ziidi.fields = ZiidiFields

----------------------------------------------------------------------------
\* C24: the record a plotting thread holds is a copy made at hand-off, never
\* the object that is an element of months, so the operations of the main
\* thread act on objects no thread holds.
C24_PlotHoldsCopy ==
    \A i \in 1..Len(plot) : plot[i].held \notin RecsOf(months)

----------------------------------------------------------------------------
\* C25: save is atomic for the backing file: after every save, also one
\* that failed part-way, the file holds the complete document it held
\* before or the complete document of the current months, never an empty
\* or partial one.
C25_SaveAtomic ==
    (saved # "none" /\ last.op \in {"add", "undo", "redo"}) =>
        \/ file = pre.file
        \/ file = Dump(M)

----------------------------------------------------------------------------
\* every MonthData object and every container object is after the step
\* what it was before it
RecordsKept ==
    /\ Len(recs') >= Len(recs)
    /\ \A r \in 1..Len(recs) : recs'[r] = recs[r]
    /\ Len(conts') >= Len(conts)
    /\ \A c \in 1..Len(conts) : conts'[c] = conts[c]

\* what a plotting thread read from its record is what the record held when
\* the thread was given it
ThreadsReadGiven ==
    \A i \in 1..Len(plot) :
        plot[i].read # <<>> => plot[i].read[1] = plot[i].given

\* C26: a record is immutable once built: no add, undo, redo, clear, export
\* or save changes the label, a portfolio value, a version tag or the
\* timestamp of a record, in months or in a snapshot; so the values a
\* plotting thread reads from its record are the values at hand-off, however
\* its reading interleaves with the ledger's operations.
C26_RecordsImmutable == [][RecordsKept /\ ThreadsReadGiven']_vars

\* a thread read its record after an undo or a clear took the record out of
\* the ledger
C26_Witness ==
    /\ last.op = "plot_thread"
    /\ pre.last.op \in {"undo", "clear"}
    /\ pre.last.err = NoError
    /\ \E i \in 1..Len(plot) :
          /\ plot[i].read = <<plot[i].given>>
          /\ plot[i].held \notin HeldRecs

----------------------------------------------------------------------------
\* months was cleared when it held records, and only undo and redo followed
AfterClear == ghost.cleared # <<>> /\ ghost.cleared[1] # <<>>

\* C27: clear is not undoable: when months, reached from the load by add,
\* undo and redo only, held records and was cleared, no sequence of undo
\* and redo makes months the cleared sequence again; the undo right after
\* the clear yields the cleared sequence without its last record, the
\* snapshot taken before the last add.
C27_ClearNotUndoable ==
    AfterClear =>
        /\ M # ghost.cleared[1]
        /\ (Done("undo") /\ pre.last.op = "clear") =>
              M = Pop(ghost.cleared[1])

\* an undo and a redo after the clear of a ledger with records
C27_Witness ==
    /\ AfterClear
    /\ Done("redo")
    /\ pre.last.op = "undo"
    /\ pre.last.err = NoError
    /\ M # ghost.cleared[1]

----------------------------------------------------------------------------
\* C28: import is all-or-nothing: when it fails, on a file that is missing
\* or does not parse or has a malformed record after well-formed ones,
\* months is what it was before the call, never empty and never the records
\* that came before the malformed one.
C28_ImportAllOrNothing ==
    (last.op = "import" /\ last.err # NoError) => M = pre.months

----------------------------------------------------------------------------
\* the state was reached from the load by add, undo and redo only
OnlyAddUndoRedo == ghost.cleared = <<>>

\* the months sequence the load produced
L == ghost.loaded

\* C29: in every state reached from a load L by add, undo and redo only,
\* the snapshots of undo_stack are, from the bottom, the prefixes of months
\* of lengths |L|, |L| + 1, ..., so len(undo_stack) = len(months) - |L|;
\* every snapshot of redo_stack extends months, by 1, 2, ... records from
\* the top down; undo and redo keep len(undo_stack) + len(redo_stack), and
\* undo fails exactly when months is as long as L.
C29_StackShape ==
    OnlyAddUndoRedo =>
        /\ Len(U) = Len(M) - Len(L)
        /\ \A i \in 1..Len(U) : U[i] = SubSeq(M, 1, Len(L) + i - 1)
        /\ \A j \in 1..Len(R) :
              /\ Len(R[j]) = Len(M) + (Len(R) - j + 1)
              /\ SubSeq(R[j], 1, Len(M)) = M
        /\ last.op \in {"undo", "redo"} =>
              Len(U) + Len(R)
                  = Len(pre.undo_stack) + Len(pre.redo_stack)
        /\ last.op = "undo" =>
              (last.err # NoError <=> Len(pre.months) = Len(L))

\* two adds and two undos on a loaded record: both stacks were used and
\* redo_stack holds the extensions of months by one and by two records
C29_Witness ==
    /\ OnlyAddUndoRedo
    /\ Len(L) = 1
    /\ Done("undo")
    /\ U = <<>>
    /\ Len(R) = 2
    /\ M = L

----------------------------------------------------------------------------
\* C30: a ledger newly constructed on the backing file starts with empty
\* undo_stack and redo_stack and with the months of the last successful
\* save of add, undo or redo, so without what a later clear or import
\* changed; undo right after the restart fails with "Nothing to undo.".
C30_Restart ==
    /\ last.op = "restart" =>
          /\ U = <<>>
          /\ R = <<>>
          /\ ghost.synced # <<>> => M = ghost.synced[1]
    /\ (last.op = "undo" /\ pre.last.op = "restart") =>
          last.err = <<"Nothing to undo.">>

====
